---- MODULE Spec2Model ----
(***************************************************************************)
(* Model of the c-nano-playground sources:                                 *)
(*   - src/src/uart_com.c: uprintf (format scan into a 128-byte stack      *)
(*     buffer), uart_print and uart_transmit (the byte sink);              *)
(*   - src/documentation/linker/main.c: main and ISR(TIMER0_OVF_vect)      *)
(*     sharing global_counter.                                             *)
(* Characters are their ASCII codes.  The target is the ATmega328P         *)
(* (avr-gcc): int and pointers are 16 bits wide.                           *)
(***************************************************************************)
EXTENDS Integers, Sequences, FiniteSets, TLC

VARIABLES
    \* ---- uprintf / uart_print (src/src/uart_com.c)
    fmem,       \* memory at `format`: the string, its terminator, bytes after it
    args,       \* the variadic arguments, in order
    p,          \* scan pointer, as an offset from `format`
    ai,         \* number of arguments consumed by va_arg
    buf_idx,    \* write cursor
    buffer,     \* char buffer[128]; -1 is an uninitialised byte
    oob,        \* offsets >= 128 written through `buffer`
    temp_idx,   \* highest temp_idx reached by the last digit conversion
    temp_cap,   \* size of the scratch array that conversion used
    strTrunc,   \* history: a %s argument was longer than the room left
    pc,         \* "scan", "print", "done"
    str_i,      \* uart_print's pointer, as an offset from `buffer`
    udre,       \* UCSR0A.UDRE0: transmit buffer empty
    sink,       \* bytes stored to UDR0, in order
    ret,        \* uprintf's return value (-1 before it returns)
    \* ---- main / ISR (src/documentation/linker/main.c)
    mpc,        \* main's position
    gc_lo,      \* global_counter, low byte
    gc_hi,      \* global_counter, high byte
    r24,        \* register pair holding the value main is incrementing
    r25,
    hiFirst,    \* the build stores the high byte of an int first
    uninitialized_value,
    eeprom_cell,   \* eeprom_settings[0]
    eeprom_val,
    isrRuns,    \* history: runs of the handler
    isrEarly,   \* history: the handler ran before main had stored 42
    loopIncs    \* history: main-loop increments of global_counter completed

fvars == <<fmem, args, p, ai, buf_idx, buffer, oob, temp_idx, temp_cap,
           strTrunc, pc, str_i, udre, sink, ret>>
mvars == <<mpc, gc_lo, gc_hi, r24, r25, hiFirst, uninitialized_value,
           eeprom_cell, eeprom_val, isrRuns, isrEarly, loopIncs>>
vars == <<fvars, mvars>>

(***************************************************************************)
(* Program constants                                                       *)
(***************************************************************************)
BUF_SIZE == 128
BUF_LIMIT == 127
TEMP_DEC == 12
TEMP_HEX == 9
INT_BITS == 16

INT_MIN == -(2 ^ (INT_BITS - 1))
INT_MAX == 2 ^ (INT_BITS - 1) - 1
UINT_MAX == 2 ^ INT_BITS - 1

(***************************************************************************)
(* Bounds of the model                                                     *)
(***************************************************************************)
NumRange == 260     \* every value 0..NumRange is an argument of %u %x %X %p
MaxStr == 3         \* short %s arguments have 0..MaxStr characters
MaxOverrun == 2     \* bytes after buffer[127] that uart_print may find non-zero
MaxIsr == 3         \* handler runs counted
MaxLoop == 3        \* main-loop iterations counted

(***************************************************************************)
(* Helpers                                                                 *)
(***************************************************************************)
Min(a, b) == IF a < b THEN a ELSE b
Max(a, b) == IF a > b THEN a ELSE b

\* C's integer division and remainder truncate toward zero.
TruncDiv(a, b) == IF a >= 0 THEN a \div b ELSE -((-a) \div b)
TruncMod(a, b) == a - b * TruncDiv(a, b)

Rep(c, n) == [i \in 1..n |-> c]

HexLower == <<48, 49, 50, 51, 52, 53, 54, 55, 56, 57, 97, 98, 99, 100, 101, 102>>
HexUpper == <<48, 49, 50, 51, 52, 53, 54, 55, 56, 57, 65, 66, 67, 68, 69, 70>>

(***************************************************************************)
(* uprintf: digit conversion (uart_com.c:47-131)                           *)
(***************************************************************************)

\* while (val > 0) { temp[temp_idx++] = digits[val % base]; val /= base; }
\* (for hex the code masks with 0xF and shifts right by 4)
RECURSIVE DigitLoop(_, _, _)
DigitLoop(val, base, digits) ==
    IF val > 0
    THEN <<digits[(val % base) + 1]>> \o DigitLoop(val \div base, base, digits)
    ELSE <<>>

\* if (val == 0) temp[temp_idx++] = '0'; else <the loop>: the scratch array,
\* least-significant digit first.
ToTemp(val, base, digits) ==
    IF val = 0 THEN <<48>> ELSE DigitLoop(val, base, digits)

\* The same loop on a signed int whose sign the build no longer tests
\* (val != 0 instead of val > 0): '0' + (val % 10) with C's truncating
\* operators.
RECURSIVE SignedLoop(_)
SignedLoop(val) ==
    IF val # 0
    THEN <<48 + TruncMod(val, 10)>> \o SignedLoop(TruncDiv(val, 10))
    ELSE <<>>

\* val = -val on a 16-bit int.  -INT_MIN is not representable: signed
\* overflow, undefined behaviour.  The two's complement negation leaves
\* INT_MIN in place.
Negate(val) == IF val = INT_MIN THEN INT_MIN ELSE -val

\* What a build can make of the digit loop once val = -val has overflowed:
\*   "guarded"   the loop as written: INT_MIN > 0 is false, no digit;
\*   "unguarded" the build has dropped the sign test, signed division;
\*   "unsigned"  the build divides the bit pattern as an unsigned value.
NegOutcomes(val) ==
    IF val = INT_MIN THEN {"guarded", "unguarded", "unsigned"} ELSE {"defined"}

\* Mutant of IntTemp: the sign is never appended.
IntTempNoSign(val, outcome) ==
    LET v == IF val < 0 THEN Negate(val) ELSE val
    IN  IF v = 0 THEN <<48>> ELSE DigitLoop(v, 10, HexLower)

\* The %d / %i scratch array for argument val (uart_com.c:49-64).
IntTemp(val, outcome) ==
    LET is_negative == val < 0
        v == IF is_negative THEN Negate(val) ELSE val
        digits ==
            IF v = 0 THEN <<48>>
            ELSE IF v > 0 THEN DigitLoop(v, 10, HexLower)
            ELSE IF outcome = "guarded" THEN <<>>
            ELSE IF outcome = "unguarded" THEN SignedLoop(v)
            ELSE DigitLoop(v + 2 ^ INT_BITS, 10, HexLower)
    IN  IF is_negative THEN Append(digits, 45) ELSE digits

(***************************************************************************)
(* uprintf: stores into buffer                                             *)
(***************************************************************************)

\* buffer[i] = c.  An offset outside the array is recorded in oob instead.
Write(buf, i, c) == IF i \in DOMAIN buf THEN [buf EXCEPT ![i] = c] ELSE buf
OobAfter(o, i) == IF i >= BUF_SIZE THEN o \cup {i} ELSE o

\* buffer[buf_idx++] = c for each c of cs, with no bound test.
PutChars(buf, idx, cs) ==
    [i \in DOMAIN buf |->
        IF idx <= i /\ i < idx + Len(cs) THEN cs[i - idx + 1] ELSE buf[i]]

\* Mutant of Room: the copy loops test buf_idx < 128.
RoomOffByOne(idx) == IF BUF_SIZE - idx > 0 THEN BUF_SIZE - idx ELSE 0

\* Number of characters the guarded copy loops move:
\* while (n > 0 && buf_idx < 127).
Room(idx) == Max(0, BUF_LIMIT - idx)
Copied(idx, n) == Min(n, Room(idx))

\* Mutant of CopyReversed: the scratch array is copied in the order it was
\* filled, least-significant digit first.
CopyForward(buf, idx, temp) ==
    PutChars(buf, idx, SubSeq(temp, 1, Copied(idx, Len(temp))))

\* while (temp_idx > 0 && buf_idx < 127) buffer[buf_idx++] = temp[--temp_idx];
CopyReversed(buf, idx, temp) ==
    LET n == Copied(idx, Len(temp))
    IN  PutChars(buf, idx, [j \in 1..n |-> temp[Len(temp) + 1 - j]])

\* while (*str && buf_idx < 127) buffer[buf_idx++] = *str++;
StrCopy(buf, idx, str) ==
    PutChars(buf, idx, SubSeq(str, 1, Copied(idx, Len(str))))

(***************************************************************************)
(* The calls explored: uprintf(format, args...)                            *)
(***************************************************************************)
Arg(n) == [v |-> n, s |-> <<>>]        \* an int, unsigned or pointer argument
StrArg(cs) == [v |-> 0, s |-> cs]      \* a char* argument: cs, then NUL
Call(f, a) == [fmt |-> f, args |-> a]

IntVals == {0, 7, 10, -5, -42, INT_MAX, INT_MIN + 1, INT_MIN}
UVals == (0..NumRange) \cup {99, 100, 171, 255, 256, 4095, 4096, 9999, 10000,
                             2 ^ (INT_BITS - 1), UINT_MAX - 1, UINT_MAX}
ShortStrs == {Rep(115, n) : n \in 0..MaxStr} \cup {<<111, 107>>}
LongStr == Rep(115, BUF_SIZE + MaxStr)

\* "Value: %d, hex: %X, str: %s!" with -42, 255, "ok"
ScenarioFmt ==
    <<86, 97, 108, 117, 101, 58, 32, 37, 100, 44, 32, 104, 101, 120, 58, 32,
      37, 88, 44, 32, 115, 116, 114, 58, 32, 37, 115, 33>>
ScenarioArgs == <<Arg(-42), Arg(255), StrArg(<<111, 107>>)>>
\* "Value: -42, hex: FF, str: ok!"
ScenarioOut ==
    <<86, 97, 108, 117, 101, 58, 32, 45, 52, 50, 44, 32, 104, 101, 120, 58, 32,
      70, 70, 44, 32, 115, 116, 114, 58, 32, 111, 107, 33>>

\* One directive with each of its argument values, from cursor 0.
FullCalls ==
    {Call(<<>>, <<>>), Call(<<37, 37>>, <<>>), Call(ScenarioFmt, ScenarioArgs)}
    \cup {Call(<<37, d>>, <<Arg(n)>>) : d \in {100, 105}, n \in IntVals}
    \cup {Call(<<37, d>>, <<Arg(n)>>) : d \in {117, 120, 88, 112}, n \in UVals}
    \cup {Call(<<37, 115>>, <<StrArg(cs)>>) : cs \in ShortStrs \cup {LongStr}}
    \cup {Call(<<37, 99>>, <<Arg(c)>>) : c \in {0, 65}}

\* One directive with a boundary argument, entered near the end of the buffer.
EdgeCalls ==
    {Call(<<>>, <<>>), Call(<<37, 37>>, <<>>)}
    \cup {Call(<<37, 100>>, <<Arg(n)>>) : n \in {7, INT_MIN + 1}}
    \cup {Call(<<37, d>>, <<Arg(n)>>) : d \in {117, 88, 112}, n \in {0, UINT_MAX}}
    \cup {Call(<<37, 115>>, <<StrArg(cs)>>) : cs \in ShortStrs}
    \cup {Call(<<37, 99>>, <<Arg(c)>>) : c \in {0, 65}}

\* Literal characters before the directive, and what follows it:
\* nothing, "!", "%z!" (an unknown directive), "%" (a '%' that ends the format).
EdgePads == {BUF_SIZE - 4, BUF_SIZE - 3, BUF_SIZE - 2, BUF_SIZE - 1}
Suffixes == {<<>>, <<33>>, <<37, 122, 33>>, <<37>>}

\* Memory after the format's terminator: whatever the linker placed there.
\* Only a format that ends in '%' is scanned past its terminator, so only
\* such a format is paired with a non-zero byte there.
Tails == {<<0>>, <<90, 0>>}

Formats ==
    {Call(c.fmt \o sfx, c.args) : c \in FullCalls, sfx \in Suffixes}
    \cup {Call(Rep(97, n) \o c.fmt \o sfx, c.args) :
            n \in EdgePads, c \in EdgeCalls, sfx \in Suffixes}

FmtAt(i) == fmem[i + 1]

(***************************************************************************)
(* uprintf: one action per pass of the scan loop (uart_com.c:44-140)       *)
(***************************************************************************)
FmtInit ==
    /\ \E c \in Formats :
         /\ args = c.args
         /\ \E tl \in Tails :
              /\ (tl # <<0>>) => (c.fmt # <<>> /\ c.fmt[Len(c.fmt)] = 37)
              /\ fmem = c.fmt \o <<0>> \o tl
    /\ p = 0
    /\ ai = 0
    /\ buf_idx = 0
    /\ buffer = [i \in 0..(BUF_SIZE - 1) |-> -1]
    /\ oob = {}
    /\ temp_idx = 0
    /\ temp_cap = 0
    /\ strTrunc = FALSE
    /\ pc = "scan"
    /\ str_i = 0
    /\ udre \in BOOLEAN
    /\ sink = <<>>
    /\ ret = -1

\* while (*p && buf_idx < 127)
Scanning == pc = "scan" /\ FmtAt(p) # 0 /\ buf_idx < BUF_LIMIT
AtDirective(kinds) == Scanning /\ FmtAt(p) = 37 /\ FmtAt(p + 1) \in kinds
KnownKinds == {100, 105, 117, 120, 88, 115, 99, 112, 37}

PrintFrame == UNCHANGED <<fmem, args, oob, pc, str_i, udre, sink, ret, mvars>>

\* The pass leaves with the cursor at idx after consuming len format
\* characters and nargs arguments.
Advance(len, nargs, idx) ==
    /\ p' = p + len
    /\ ai' = ai + nargs
    /\ buf_idx' = idx

NoScratch == UNCHANGED <<temp_idx, temp_cap>>

\* else { buffer[buf_idx++] = *p++; }
StepLiteral ==
    /\ Scanning
    /\ FmtAt(p) # 37
    /\ buffer' = Write(buffer, buf_idx, FmtAt(p))
    /\ Advance(1, 0, buf_idx + 1)
    /\ NoScratch /\ UNCHANGED strTrunc /\ PrintFrame

\* A numeric directive: temp is filled, then copied reversed after prefix.
EmitNumber(prefix, temp, cap) ==
    LET start == buf_idx + Len(prefix)
    IN  /\ buffer' = CopyReversed(PutChars(buffer, buf_idx, prefix), start, temp)
        /\ Advance(2, 1, start + Copied(start, Len(temp)))
        /\ temp_idx' = Len(temp)
        /\ temp_cap' = cap
        /\ UNCHANGED strTrunc /\ PrintFrame

\* %d, %i
StepInt ==
    /\ AtDirective({100, 105})
    /\ \E outcome \in NegOutcomes(args[ai + 1].v) :
         EmitNumber(<<>>, IntTemp(args[ai + 1].v, outcome), TEMP_DEC)

\* %u
StepUnsigned ==
    /\ AtDirective({117})
    /\ EmitNumber(<<>>, ToTemp(args[ai + 1].v, 10, HexLower), TEMP_DEC)

\* %x, %X
StepHex ==
    /\ AtDirective({120, 88})
    /\ EmitNumber(<<>>,
                  ToTemp(args[ai + 1].v, 16,
                         IF FmtAt(p + 1) = 88 THEN HexUpper ELSE HexLower),
                  TEMP_HEX)

\* %p: '0' and 'x' are stored with no bound test
StepPtr ==
    /\ AtDirective({112})
    /\ EmitNumber(<<48, 120>>, ToTemp(args[ai + 1].v, 16, HexLower), TEMP_HEX)

\* %s
StepStr ==
    /\ AtDirective({115})
    /\ LET str == args[ai + 1].s
       IN  /\ buffer' = StrCopy(buffer, buf_idx, str)
           /\ Advance(2, 1, buf_idx + Copied(buf_idx, Len(str)))
           /\ strTrunc' = (strTrunc \/ Len(str) > Room(buf_idx))
    /\ NoScratch /\ PrintFrame

\* %c
StepChar ==
    /\ AtDirective({99})
    /\ buffer' = Write(buffer, buf_idx, args[ai + 1].v % 256)
    /\ Advance(2, 1, buf_idx + 1)
    /\ NoScratch /\ UNCHANGED strTrunc /\ PrintFrame

\* %%
StepPercent ==
    /\ AtDirective({37})
    /\ buffer' = Write(buffer, buf_idx, 37)
    /\ Advance(2, 0, buf_idx + 1)
    /\ NoScratch /\ UNCHANGED strTrunc /\ PrintFrame

\* Mutant of StepUnknown: the character after '%' is copied as a literal.
StepUnknownEmit ==
    /\ Scanning
    /\ FmtAt(p) = 37
    /\ FmtAt(p + 1) \notin KnownKinds
    /\ buffer' = Write(buffer, buf_idx, FmtAt(p + 1))
    /\ Advance(2, 0, buf_idx + 1)
    /\ UNCHANGED strTrunc /\ NoScratch /\ PrintFrame

\* '%' followed by anything else, the terminator included: no branch is
\* taken and p++ runs twice.
StepUnknown ==
    /\ Scanning
    /\ FmtAt(p) = 37
    /\ FmtAt(p + 1) \notin KnownKinds
    /\ Advance(2, 0, buf_idx)
    /\ UNCHANGED <<buffer, strTrunc>> /\ NoScratch /\ PrintFrame

\* buffer[buf_idx] = '\0'; va_end(args); uart_print(buffer) is entered.
Terminate ==
    /\ pc = "scan"
    /\ ~Scanning
    /\ buffer' = Write(buffer, buf_idx, 0)
    /\ oob' = OobAfter(oob, buf_idx)
    /\ pc' = "print"
    /\ str_i' = 0
    /\ UNCHANGED <<fmem, args, p, ai, buf_idx, temp_idx, temp_cap, strTrunc,
                   udre, sink, ret, mvars>>

(***************************************************************************)
(* uart_print, uart_transmit (uart_com.c:20-33) and the return             *)
(***************************************************************************)
\* *str for str = buffer + i.  Past the array the byte read is not the
\* array's: any value, and zero at the latest MaxOverrun bytes on.
Bytes(i) ==
    IF i < BUF_SIZE THEN {buffer[i]}
    ELSE IF i < BUF_SIZE + MaxOverrun THEN {0, 255}
    ELSE {0}

\* while (*str) uart_transmit(*str++);  with
\* while (!(UCSR0A & (1<<UDRE0))); UDR0 = data;
UartTransmit ==
    /\ pc = "print"
    /\ udre
    /\ \E c \in Bytes(str_i) :
         /\ c # 0
         /\ sink' = Append(sink, c)
    /\ str_i' = str_i + 1
    /\ udre' = FALSE
    /\ UNCHANGED <<fmem, args, p, ai, buf_idx, buffer, oob, temp_idx, temp_cap,
                   strTrunc, pc, ret, mvars>>

\* The USART has moved the byte to its shift register.
UdreSet ==
    /\ pc = "print"
    /\ ~udre
    /\ udre' = TRUE
    /\ UNCHANGED <<fmem, args, p, ai, buf_idx, buffer, oob, temp_idx, temp_cap,
                   strTrunc, pc, str_i, sink, ret, mvars>>

\* uart_print finds the terminator; return buf_idx;
Return ==
    /\ pc = "print"
    /\ 0 \in Bytes(str_i)
    /\ ret' = buf_idx
    /\ pc' = "done"
    /\ UNCHANGED <<fmem, args, p, ai, buf_idx, buffer, oob, temp_idx, temp_cap,
                   strTrunc, str_i, udre, sink, mvars>>

(***************************************************************************)
(* documentation/linker/main.c: main and ISR(TIMER0_OVF_vect)              *)
(***************************************************************************)
Word(hi, lo) == hi * 256 + lo
Lo(w) == w % 256
Hi(w) == (w \div 256) % 256
global_counter == Word(gc_hi, gc_lo)

\* int global_counter = 0; the .bss and EEPROM contents at reset.
MainInit ==
    /\ mpc = "start"
    /\ gc_lo = 0
    /\ gc_hi = 0
    /\ r24 = 0
    /\ r25 = 0
    /\ hiFirst \in BOOLEAN
    /\ uninitialized_value = 0
    /\ eeprom_cell \in {0, 7, 255}
    /\ eeprom_val = 0
    /\ isrRuns = 0
    /\ isrEarly = FALSE
    /\ loopIncs = 0

MainFrame == UNCHANGED fvars
NoIsr == UNCHANGED <<isrRuns, isrEarly>>

\* One byte of a 16-bit store: the first or the second sts of the pair.
StoreFirst(w) ==
    IF hiFirst THEN gc_hi' = Hi(w) /\ UNCHANGED gc_lo
    ELSE gc_lo' = Lo(w) /\ UNCHANGED gc_hi
StoreSecond(w) ==
    IF hiFirst THEN gc_lo' = Lo(w) /\ UNCHANGED gc_hi
    ELSE gc_hi' = Hi(w) /\ UNCHANGED gc_lo

\* global_counter = 42;  (line 150), first byte
Store42First ==
    /\ mpc = "start"
    /\ StoreFirst(42)
    /\ mpc' = "store42"
    /\ UNCHANGED <<r24, r25, hiFirst, uninitialized_value, eeprom_cell,
                   eeprom_val, loopIncs>>
    /\ NoIsr /\ MainFrame

\* global_counter = 42;  second byte
Store42Second ==
    /\ mpc = "store42"
    /\ StoreSecond(42)
    /\ mpc' = "setup"
    /\ UNCHANGED <<r24, r25, hiFirst, uninitialized_value, eeprom_cell,
                   eeprom_val, loopIncs>>
    /\ NoIsr /\ MainFrame

\* uninitialized_value = 100; and the buffer stores (lines 153-172)
Setup ==
    /\ mpc = "setup"
    /\ uninitialized_value' = 100
    /\ mpc' = "eeread"
    /\ UNCHANGED <<gc_lo, gc_hi, r24, r25, hiFirst, eeprom_cell, eeprom_val,
                   loopIncs>>
    /\ NoIsr /\ MainFrame

\* uint8_t eeprom_val = eeprom_read_byte(&eeprom_settings[0]);
EepromRead ==
    /\ mpc = "eeread"
    /\ eeprom_val' = eeprom_cell
    /\ mpc' = "eewrite"
    /\ UNCHANGED <<gc_lo, gc_hi, r24, r25, hiFirst, uninitialized_value,
                   eeprom_cell, loopIncs>>
    /\ NoIsr /\ MainFrame

\* eeprom_write_byte(&eeprom_settings[0], eeprom_val + 1); then
\* critical_function(); print_memory_map();
EepromWrite ==
    /\ mpc = "eewrite"
    /\ eeprom_cell' = (eeprom_val + 1) % 256
    /\ mpc' = "loop"
    /\ UNCHANGED <<gc_lo, gc_hi, r24, r25, hiFirst, uninitialized_value,
                   eeprom_val, loopIncs>>
    /\ NoIsr /\ MainFrame

\* PORTB ^= (1 << PB5); _delay_ms(1000); then global_counter++ begins:
\* the low byte is loaded.
LoopLoadLo ==
    /\ mpc = "loop"
    /\ loopIncs < MaxLoop
    /\ r24' = gc_lo
    /\ mpc' = "ld_hi"
    /\ UNCHANGED <<gc_lo, gc_hi, r25, hiFirst, uninitialized_value,
                   eeprom_cell, eeprom_val, loopIncs>>
    /\ NoIsr /\ MainFrame

\* the high byte is loaded and the pair incremented
LoopLoadHi ==
    /\ mpc = "ld_hi"
    /\ LET w == (Word(gc_hi, r24) + 1) % (2 ^ INT_BITS)
       IN  r24' = Lo(w) /\ r25' = Hi(w)
    /\ mpc' = "st_1"
    /\ UNCHANGED <<gc_lo, gc_hi, hiFirst, uninitialized_value, eeprom_cell,
                   eeprom_val, loopIncs>>
    /\ NoIsr /\ MainFrame

\* the incremented pair is stored back, one byte at a time
LoopStoreFirst ==
    /\ mpc = "st_1"
    /\ StoreFirst(Word(r25, r24))
    /\ mpc' = "st_2"
    /\ UNCHANGED <<r24, r25, hiFirst, uninitialized_value, eeprom_cell,
                   eeprom_val, loopIncs>>
    /\ NoIsr /\ MainFrame

LoopStoreSecond ==
    /\ mpc = "st_2"
    /\ StoreSecond(Word(r25, r24))
    /\ loopIncs' = loopIncs + 1
    /\ mpc' = "uv_inc"
    /\ UNCHANGED <<r24, r25, hiFirst, uninitialized_value, eeprom_cell,
                   eeprom_val>>
    /\ NoIsr /\ MainFrame

\* uninitialized_value++;
LoopIncUninit ==
    /\ mpc = "uv_inc"
    /\ uninitialized_value' = (uninitialized_value + 1) % (2 ^ INT_BITS)
    /\ mpc' = "loop"
    /\ UNCHANGED <<gc_lo, gc_hi, r24, r25, hiFirst, eeprom_cell, eeprom_val,
                   loopIncs>>
    /\ NoIsr /\ MainFrame

\* ISR(TIMER0_OVF_vect) { global_counter++; }  The handler runs with
\* interrupts disabled, between any two instructions of main.
TimerIsr ==
    /\ mpc # "halt"
    /\ isrRuns < MaxIsr
    /\ LET w == (global_counter + 1) % (2 ^ INT_BITS)
       IN  gc_lo' = Lo(w) /\ gc_hi' = Hi(w)
    /\ isrRuns' = isrRuns + 1
    /\ isrEarly' = (isrEarly \/ mpc \in {"start", "store42"})
    /\ UNCHANGED <<mpc, r24, r25, hiFirst, uninitialized_value, eeprom_cell,
                   eeprom_val, loopIncs>>
    /\ MainFrame

(***************************************************************************)
(* Specifications                                                          *)
(***************************************************************************)
\* The state of the program that is not running.
MainIdle ==
    /\ mpc = "halt"
    /\ gc_lo = 0 /\ gc_hi = 0 /\ r24 = 0 /\ r25 = 0
    /\ hiFirst = TRUE
    /\ uninitialized_value = 0
    /\ eeprom_cell = 0 /\ eeprom_val = 0
    /\ isrRuns = 0 /\ isrEarly = FALSE /\ loopIncs = 0

FmtIdle ==
    /\ fmem = <<0>> /\ args = <<>>
    /\ p = 0 /\ ai = 0 /\ buf_idx = 0
    /\ buffer = [i \in 0..(BUF_SIZE - 1) |-> -1]
    /\ oob = {}
    /\ temp_idx = 0 /\ temp_cap = 0
    /\ strTrunc = FALSE
    /\ pc = "idle" /\ str_i = 0 /\ udre = TRUE /\ sink = <<>> /\ ret = -1

\* One call of uprintf.
Init == FmtInit /\ MainIdle

Next ==
    \/ StepLiteral
    \/ StepInt
    \/ StepUnsigned
    \/ StepHex
    \/ StepPtr
    \/ StepStr
    \/ StepChar
    \/ StepPercent
    \/ StepUnknown
    \/ Terminate
    \/ UartTransmit
    \/ UdreSet
    \/ Return

Spec == Init /\ [][Next]_vars

\* main of documentation/linker/main.c with its timer interrupt.
InitMain == MainInit /\ FmtIdle

NextMain ==
    \/ Store42First
    \/ Store42Second
    \/ Setup
    \/ EepromRead
    \/ EepromWrite
    \/ LoopLoadLo
    \/ LoopLoadHi
    \/ LoopStoreFirst
    \/ LoopStoreSecond
    \/ LoopIncUninit
    \/ TimerIsr

SpecMain == InitMain /\ [][NextMain]_vars

(***************************************************************************)
(* Reading a rendering back                                                *)
(***************************************************************************)
\* The characters a pass of the scan loop has added to the buffer.
Emitted == [i \in 1..(buf_idx' - buf_idx) |-> buffer'[buf_idx + i - 1]]

\* cs is a numeral in the given base: digits only, at least one, and no
\* leading zero unless it is "0".
IsNumeral(cs, base, digits) ==
    /\ Len(cs) >= 1
    /\ \A i \in 1..Len(cs) : \E d \in 1..base : cs[i] = digits[d]
    /\ Len(cs) = 1 \/ cs[1] # 48

DigitOf(c, digits) == CHOOSE d \in 0..15 : digits[d + 1] = c

\* The number a numeral denotes, most-significant digit first.
RECURSIVE NumValue(_, _, _)
NumValue(cs, base, digits) ==
    IF cs = <<>> THEN 0
    ELSE NumValue(SubSeq(cs, 1, Len(cs) - 1), base, digits) * base
         + DigitOf(cs[Len(cs)], digits)

\* Number of digits of n in the given base.
RECURSIVE NumWidth(_, _)
NumWidth(n, base) == IF n < base THEN 1 ELSE 1 + NumWidth(n \div base, base)

\* Offset of the format's terminator.
TermIndex == CHOOSE i \in 0..(Len(fmem) - 1) :
                 /\ FmtAt(i) = 0
                 /\ \A j \in 0..(i - 1) : FmtAt(j) # 0

\* The buffered characters buffer[0 .. n-1].
Buffered(n) == [i \in 1..n |-> buffer[i - 1]]

(***************************************************************************)
(* Claims                                                                  *)
(***************************************************************************)

\* C1: at every point of the render pass the write cursor is at most 127
\* and no store through buffer lands outside indices 0..127.
C1_CursorWithinBuffer == buf_idx <= BUF_SIZE - 1 /\ oob = {}

\* C2: when uprintf returns, the sink has received exactly the buffered
\* characters, in order, and the return value is the number of bytes the
\* sink received.
C2_SinkGetsBuffered ==
    pc = "done" => (ret = Len(sink) /\ sink = Buffered(Min(ret, BUF_SIZE)))

\* C3: a pass over %d or %i with a negative argument and room in the buffer
\* adds '-' followed by the decimal numeral of the magnitude, and fills at
\* most the 12 entries of the scratch array.
C3_NegativeRendersMagnitude ==
    [][(AtDirective({100, 105}) /\ args[ai + 1].v < 0
          /\ Room(buf_idx) >= TEMP_DEC)
        => /\ Len(Emitted) >= 2
           /\ Emitted[1] = 45
           /\ IsNumeral(Tail(Emitted), 10, HexLower)
           /\ NumValue(Tail(Emitted), 10, HexLower) = -args[ai + 1].v
           /\ temp_idx' <= TEMP_DEC]_vars

\* C4: a pass over %u, %x, %X or %p whose rendering fits in the room left
\* adds the minimal numeral of the argument, most-significant digit first
\* (decimal for %u, lowercase hex for %x, uppercase hex for %X, "0x" and
\* lowercase hex for %p; "0" for zero), and stays within the scratch array
\* (12 entries for %u, 9 for the others).
C4_UnsignedRendering ==
    [][\A k \in {117, 120, 88, 112} :
        LET v == args[ai + 1].v
            base == IF k = 117 THEN 10 ELSE 16
            digits == IF k = 88 THEN HexUpper ELSE HexLower
            prefix == IF k = 112 THEN <<48, 120>> ELSE <<>>
            num == SubSeq(Emitted, Len(prefix) + 1, Len(Emitted))
        IN  (AtDirective({k})
               /\ Len(prefix) + NumWidth(v, base) <= Room(buf_idx))
            => /\ Len(Emitted) >= Len(prefix) + 1
               /\ SubSeq(Emitted, 1, Len(prefix)) = prefix
               /\ IsNumeral(num, base, digits)
               /\ NumValue(num, base, digits) = v
               /\ (v = 0 => num = <<48>>)
               /\ temp_cap' = (IF k = 117 THEN TEMP_DEC ELSE TEMP_HEX)
               /\ temp_idx' <= temp_cap']_vars

\* C4 witness: "%p" with the largest address has been rendered as 0xffff.
C4_Witness ==
    /\ pc = "done"
    /\ sink = <<48, 120, 102, 102, 102, 102>>
    /\ args = <<Arg(UINT_MAX)>>
    /\ temp_idx = 4

\* C5: when a %s argument was longer than the room left, uprintf has
\* buffered exactly 127 characters, the last of them the leading characters
\* of that argument, the terminator is at index 127, nothing was stored past
\* index 127, the scan stopped right after that %s, and 127 is returned.
C5_StringTruncation ==
    (pc = "done" /\ strTrunc)
    => /\ ret = BUF_SIZE - 1
       /\ buf_idx = BUF_SIZE - 1
       /\ buffer[BUF_SIZE - 1] = 0
       /\ oob = {}
       /\ \A i \in 0..(BUF_SIZE - 2) : buffer[i] # -1
       /\ p >= 2 /\ FmtAt(p - 2) = 37 /\ FmtAt(p - 1) = 115
       /\ \E k \in 1..(Len(args[ai].s) - 1) :
            /\ k <= BUF_SIZE - 1
            /\ \A j \in 1..k : buffer[BUF_SIZE - 2 - k + j] = args[ai].s[j]

\* C5 witness: a truncated call that left format characters unread.
C5_Witness ==
    /\ pc = "done"
    /\ strTrunc
    /\ Len(sink) = BUF_SIZE - 1
    /\ FmtAt(p) # 0

IsScenario == fmem = ScenarioFmt \o <<0, 0>> /\ args = ScenarioArgs

\* C6 (as stated): the scenario call pushes "Value: -42, hex: FF, str: ok!"
\* to the sink and returns 30.
C6_ScenarioReturns30 ==
    (pc = "done" /\ IsScenario) => (sink = ScenarioOut /\ ret = 30)

\* C6 (amended): the scenario call pushes "Value: -42, hex: FF, str: ok!"
\* to the sink, in that order, and returns its character count, 29.
C6_ScenarioReturns29 ==
    (pc = "done" /\ IsScenario)
    => (sink = ScenarioOut /\ ret = 29 /\ ret = Len(ScenarioOut))

C6_Witness == pc = "done" /\ IsScenario /\ Len(sink) = Len(ScenarioOut)

\* C7: a pass that finds '%' followed by a character of the format that is
\* no directive kind stores nothing, consumes no argument, and leaves the
\* scan at the character after it, still scanning.
C7_UnknownDirectiveSkipped ==
    [][(Scanning /\ FmtAt(p) = 37 /\ FmtAt(p + 1) \notin KnownKinds
          /\ FmtAt(p + 1) # 0)
        => /\ buffer' = buffer
           /\ buf_idx' = buf_idx
           /\ oob' = oob
           /\ ai' = ai
           /\ p' = p + 2
           /\ pc' = "scan"
           /\ sink' = sink]_vars

\* C7 witness: after "%c%z!" the call has rendered the argument, skipped
\* %z and rendered the '!' that follows it.
C7_Witness ==
    /\ pc = "done"
    /\ Len(fmem) = 7
    /\ SubSeq(fmem, 1, 5) = <<37, 99, 37, 122, 33>>
    /\ sink = <<65, 33>>
    /\ ai = 1

C10_ScanStopsAtTerminator == p <= TermIndex

====
